---------------------------- MODULE Spec2Model ----------------------------
(***************************************************************************)
(* Herbal e-commerce backend (src/main.py, src/schemas.py): the request    *)
(* handlers, the schema validation, the startup seeder and serialize_doc,  *)
(* over a document store with three collections.                           *)
(*                                                                         *)
(* Python values are tagged records [t |-> <type name>, v |-> <payload>],  *)
(* so that isinstance() is a test of the tag.  A float is the payload      *)
(* [nan, w, u]: NaN, or the number w + u * 1e-6 with 0 <= u < Micro        *)
(* (exact fixed point; binary rounding of float arithmetic is not          *)
(* modelled, IEEE NaN is).  A str is a TLA+ string.                        *)
(***************************************************************************)
EXTENDS Integers, Sequences, FiniteSets, TLC

VARIABLES
    phase,   \* "stopped" | "serving" | "crashed": the process
    db,      \* "None" | "connected": the global store handle of the process
    store,   \* the document store: collection name -> sequence of documents
    resp     \* the response to the last request (or the outcome of startup)

vars == <<phase, db, store, resp>>

----------------------------------------------------------------------------
(* Bounds of the model *)

\* documents per collection beyond which no further document is posted
MaxProducts == 4
MaxArticles == 3
MaxOrders == 1
\* items of a submitted order
MaxItems == 2
\* documents per collection of a store found at the start (SpecSerialize)
MaxStoredDocs == 2

----------------------------------------------------------------------------
(* Python values *)

\* 1 / 1e-6: the number of float units u in 1
Micro == 1000000

PyNone == [t |-> "NoneType", v |-> 0]
PyStr(s) == [t |-> "str", v |-> s]
PyBool(b) == [t |-> "bool", v |-> b]
PyInt(n) == [t |-> "int", v |-> n]
PyList(xs) == [t |-> "list", v |-> xs]
PyDict(d) == [t |-> "dict", v |-> d]
PyFloat(w, u) == [t |-> "float", v |-> [nan |-> FALSE, w |-> w, u |-> u]]
PyNaN == [t |-> "float", v |-> [nan |-> TRUE, w |-> 0, u |-> 0]]
PyDatetime(y, mo, d, h, mi, s, us) ==
    [t |-> "datetime", v |-> [year |-> y, month |-> mo, day |-> d, hour |-> h,
                              minute |-> mi, second |-> s, microsecond |-> us]]
ObjectId(c, n) == [t |-> "ObjectId", v |-> [c |-> c, n |-> n]]

\* the float payload of an int or float value (Python's int -> float coercion)
Num(x) == IF x.t = "int" THEN [nan |-> FALSE, w |-> x.v, u |-> 0] ELSE x.v

FZero == [nan |-> FALSE, w |-> 0, u |-> 0]

\* a + b
FAdd(a, b) ==
    IF a.nan \/ b.nan THEN [nan |-> TRUE, w |-> 0, u |-> 0]
    ELSE [nan |-> FALSE, w |-> a.w + b.w + ((a.u + b.u) \div Micro),
          u |-> (a.u + b.u) % Micro]

\* -a
FNeg(a) ==
    IF a.nan THEN a
    ELSE IF a.u = 0 THEN [nan |-> FALSE, w |-> 0 - a.w, u |-> 0]
    ELSE [nan |-> FALSE, w |-> 0 - a.w - 1, u |-> Micro - a.u]

\* a - b
FSub(a, b) == FAdd(a, FNeg(b))

\* a * n for an int n >= 0
FMulInt(a, n) ==
    IF a.nan THEN a
    ELSE [nan |-> FALSE, w |-> a.w * n + ((a.u * n) \div Micro),
          u |-> (a.u * n) % Micro]

\* a < b, a > b, a >= b: every comparison with NaN is False
FLt(a, b) == ~a.nan /\ ~b.nan /\ (a.w < b.w \/ (a.w = b.w /\ a.u < b.u))
FGt(a, b) == FLt(b, a)
FGe(a, b) == ~a.nan /\ ~b.nan /\ ~FLt(a, b)

\* abs(a)
FAbs(a) == IF FLt(a, FZero) THEN FNeg(a) ELSE a


----------------------------------------------------------------------------
(* str operations *)

UpperChars == "ABCDEFGHIJKLMNOPQRSTUVWXYZ"
LowerChars == "abcdefghijklmnopqrstuvwxyz"

CharAt(s, i) == SubSeq(s, i, i)

LowerOf ==
    [c \in {CharAt(UpperChars, i) : i \in 1..Len(UpperChars)} |->
        CharAt(LowerChars, CHOOSE i \in 1..Len(UpperChars) : CharAt(UpperChars, i) = c)]

\* the lower-case form of a character
Lower(c) == IF c \in DOMAIN LowerOf THEN LowerOf[c] ELSE c

\* one pattern character against one text character under option "i":
\* "." matches any character, any other character of the modelled patterns
\* is a literal
RegexCharMatch(pc, tc) == pc = "." \/ Lower(pc) = Lower(tc)

\* {"$regex": pattern, "$options": "i"} on a str: the pattern matches
\* somewhere in the text (patterns of literals and ".")
RegexSearch(pattern, text) ==
    \E off \in 0..(Len(text) - Len(pattern)) :
        \A j \in 1..Len(pattern) :
            RegexCharMatch(CharAt(pattern, j), CharAt(text, off + j))

\* a number as a decimal string of at least `width` digits
RECURSIVE ZeroPad(_, _)
ZeroPad(s, width) == IF Len(s) >= width THEN s ELSE ZeroPad("0" \o s, width)
Digits(n, width) == ZeroPad(ToString(n), width)

\* datetime.isoformat() of a datetime without tzinfo: the microseconds are
\* written when they are not 0
IsoFormat(d) ==
    Digits(d.year, 4) \o "-" \o Digits(d.month, 2) \o "-" \o Digits(d.day, 2)
    \o "T" \o Digits(d.hour, 2) \o ":" \o Digits(d.minute, 2) \o ":"
    \o Digits(d.second, 2)
    \o (IF d.microsecond # 0 THEN "." \o Digits(d.microsecond, 6) ELSE "")

\* str(ObjectId): the string form of a store identifier
StrObjectId(o) == o.v.c \o "-" \o ToString(o.v.n)

\* truthiness of an Optional[str] query parameter (`if q:`)
Truthy(x) == x.t = "str" /\ x.v # ""

----------------------------------------------------------------------------
(* schemas.py: validation of a parsed request body.  Each operator gives   *)
(* [ok, model]: ok is FALSE when a Field constraint is violated (the       *)
(* request then ends 422), model is the validated model's model_dump().    *)
(* The bodies of the model carry every field with the right primitive      *)
(* type; the numeric bounds and the e-mail syntax are what is checked.     *)

AsFloat(x) == [t |-> "float", v |-> Num(x)]

\* price: float = Field(..., ge=0)
HerbalProduct(body) ==
    [ok |-> FGe(Num(body.price), FZero),
     model |-> [body EXCEPT !.price = AsFloat(body.price)]]

\* no constrained field
Article(body) == [ok |-> TRUE, model |-> body]

\* price: float;  quantity: int = Field(..., ge=1)
OrderItem(body) ==
    [ok |-> body.quantity.v >= 1,
     model |-> [body EXCEPT !.price = AsFloat(body.price)]]

\* EmailStr: a local part, "@", and a domain holding a "." (what the e-mail
\* validator requires of the modelled addresses)
EmailSyntaxOk(s) ==
    \E i \in 2..(Len(s) - 3) :
        /\ CharAt(s, i) = "@"
        /\ \A j \in 1..Len(s) : CharAt(s, j) = "@" => j = i
        /\ \E k \in (i + 2)..(Len(s) - 1) : CharAt(s, k) = "."

\* email: Optional[EmailStr] = None
CustomerInfo(body) ==
    [ok |-> body.email.t = "NoneType" \/ EmailSyntaxOk(body.email.v),
     model |-> body]

\* items: List[OrderItem];  customer: CustomerInfo;  total: float = Field(..., ge=0)
Order(body) ==
    [ok |-> /\ \A i \in 1..Len(body.items.v) : OrderItem(body.items.v[i].v).ok
            /\ CustomerInfo(body.customer.v).ok
            /\ FGe(Num(body.total), FZero),
     model |-> [body EXCEPT
                  !.items = PyList([i \in 1..Len(body.items.v) |->
                                      PyDict(OrderItem(body.items.v[i].v).model)]),
                  !.total = AsFloat(body.total)]]

----------------------------------------------------------------------------
(* The data access layer (database.py)                                     *)

Collections == {"herbalproduct", "article", "order"}

EmptyStore == [c \in Collections |-> <<>>]

\* the document as stored: the data plus the identifier the store assigns
WithId(data, oid) ==
    [k \in DOMAIN data \cup {"_id"} |-> IF k = "_id" THEN oid ELSE data[k]]

\* create_document(collection_name, data) on a reachable store: one new
\* record, and the new identifier as a string
create_document(st, coll, data) ==
    LET oid == ObjectId(coll, Len(st[coll]) + 1)
    IN  [store |-> [st EXCEPT ![coll] = Append(@, WithId(data, oid))],
         id |-> StrObjectId(oid)]

\* a field condition {"$regex": q, "$options": "i"}: the field exists, is a
\* str and matches
FieldRegex(doc, field, q) ==
    /\ field \in DOMAIN doc
    /\ doc[field].t = "str"
    /\ RegexSearch(q, doc[field].v)

\* {"$elemMatch": {"$regex": q, "$options": "i"}}: the field is a list with
\* a matching element
FieldElemMatchRegex(doc, field, q) ==
    /\ field \in DOMAIN doc
    /\ doc[field].t = "list"
    /\ \E i \in 1..Len(doc[field].v) :
          doc[field].v[i].t = "str" /\ RegexSearch(q, doc[field].v[i].v)

\* {"$in": [val]}: the field equals val or is a list holding it
FieldIn(doc, field, val) ==
    /\ field \in DOMAIN doc
    /\ \/ doc[field] = PyStr(val)
       \/ /\ doc[field].t = "list"
          /\ \E i \in 1..Len(doc[field].v) : doc[field].v[i] = PyStr(val)

\* equality on the field
FieldEq(doc, field, val) ==
    field \in DOMAIN doc /\ doc[field] = PyStr(val)

\* one condition [field, op, arg] of a filter
CondHolds(doc, c) ==
    CASE c.op = "$regex" -> FieldRegex(doc, c.field, c.arg)
      [] c.op = "$elemMatch" -> FieldElemMatchRegex(doc, c.field, c.arg)
      [] c.op = "$in" -> FieldIn(doc, c.field, c.arg)
      [] c.op = "$eq" -> FieldEq(doc, c.field, c.arg)

\* a filter is a function from keys to conditions; the key "$or" holds a
\* sequence of conditions of which one must hold, every other key one
\* condition that must hold; the empty filter matches every document
Matches(doc, filter) ==
    \A k \in DOMAIN filter :
        IF k = "$or"
        THEN \E i \in 1..Len(filter[k]) : CondHolds(doc, filter[k][i])
        ELSE CondHolds(doc, filter[k])

RECURSIVE SelectDocs(_, _)
SelectDocs(docs, filter) ==
    IF docs = <<>> THEN <<>>
    ELSE IF Matches(Head(docs), filter)
         THEN <<Head(docs)>> \o SelectDocs(Tail(docs), filter)
         ELSE SelectDocs(Tail(docs), filter)

\* get_documents(collection_name, filter) on a reachable store: the matching
\* documents in insertion order
get_documents(st, coll, filter) == SelectDocs(st[coll], filter)

----------------------------------------------------------------------------
(* main.py *)

\* serialize_doc without the conversion of datetime values
serialize_doc_keeps_datetimes(doc) ==
    LET keys == IF "_id" \in DOMAIN doc
                THEN (DOMAIN doc \ {"_id"}) \cup {"id"}
                ELSE DOMAIN doc
    IN  [k \in keys |->
           IF k = "id" /\ "_id" \in DOMAIN doc
           THEN PyStr(StrObjectId(doc["_id"]))
           ELSE doc[k]]

\* serialize_doc(doc): a copy with _id popped into id as a string and
\* every datetime value replaced by its isoformat()
serialize_doc(doc) ==
    LET keys == IF "_id" \in DOMAIN doc
                THEN (DOMAIN doc \ {"_id"}) \cup {"id"}
                ELSE DOMAIN doc
        renamed == [k \in keys |->
                      IF k = "id" /\ "_id" \in DOMAIN doc
                      THEN PyStr(StrObjectId(doc["_id"]))
                      ELSE doc[k]]
    IN  [k \in keys |->
           IF renamed[k].t = "datetime"
           THEN PyStr(IsoFormat(renamed[k].v))
           ELSE renamed[k]]

SerializeAll(docs) == [i \in 1..Len(docs) |-> serialize_doc(docs[i])]


\* a response: the handler that answered, the HTTP status, the JSON body
Response(op, status, body) == [op |-> op, status |-> status, body |-> body]

\* the store operations of a call succeed: a handle exists and the store
\* answers (reach); otherwise create_document and get_documents raise, and
\* an exception that leaves a handler is answered with 500
StoreUp(dbh, reach) == dbh # "None" /\ reach

InternalServerError(op) == Response(op, 500, [detail |-> "Internal Server Error"])

\* GET /
read_root == Response("read_root", 200, [message |-> "Herbal Store Backend Running"])

\* GET /schema
get_schema ==
    Response("get_schema", 200,
             [collections |-> <<"herbalproduct", "article", "order">>,
              models |-> {"HerbalProduct", "Article", "Order"}])

\* GET /test: listOk is whether db.list_collection_names() answers; the
\* store names the collections that hold a document
test_database(st, dbh, listOk) ==
    Response("test_database", 200,
        IF dbh = "None"
        THEN [backend |-> "Running", database |-> "Not Available",
              connection_status |-> "Not Connected", collections |-> {}]
        ELSE IF listOk
        THEN [backend |-> "Running", database |-> "Connected & Working",
              connection_status |-> "Connected",
              collections |-> {c \in Collections : st[c] # <<>>}]
        ELSE [backend |-> "Running", database |-> "Connected but Error",
              connection_status |-> "Not Connected", collections |-> {}])

\* the filter_dict of list_products
ProductFilter(q, category) ==
    LET keys == (IF Truthy(q) THEN {"$or"} ELSE {})
                \cup (IF Truthy(category) THEN {"category"} ELSE {})
    IN  [k \in keys |->
           IF k = "$or"
           THEN << [field |-> "name", op |-> "$regex", arg |-> q.v],
                   [field |-> "description", op |-> "$regex", arg |-> q.v],
                   [field |-> "ingredients", op |-> "$elemMatch", arg |-> q.v] >>
           ELSE [field |-> "category", op |-> "$eq", arg |-> category.v]]

\* GET /api/products?q=&category=
list_products(st, dbh, reach, q, category) ==
    IF dbh = "None"
    THEN Response("list_products", 500, [detail |-> "Database not configured"])
    ELSE IF ~StoreUp(dbh, reach)
    THEN InternalServerError("list_products")
    ELSE Response("list_products", 200,
                  [docs |-> SerializeAll(get_documents(st, "herbalproduct",
                                                       ProductFilter(q, category)))])

\* the filter_dict of list_articles
ArticleFilter(tag) ==
    [k \in (IF Truthy(tag) THEN {"tags"} ELSE {}) |->
        [field |-> "tags", op |-> "$in", arg |-> tag.v]]

\* list_articles answering an empty list when there is no store handle
list_articles_without_handle_check(st, dbh, reach, tag) ==
    IF ~StoreUp(dbh, reach)
    THEN Response("list_articles", 200, [docs |-> <<>>])
    ELSE Response("list_articles", 200,
                  [docs |-> SerializeAll(get_documents(st, "article",
                                                       ArticleFilter(tag)))])

\* GET /api/articles?tag=
list_articles(st, dbh, reach, tag) ==
    IF dbh = "None"
    THEN Response("list_articles", 500, [detail |-> "Database not configured"])
    ELSE IF ~StoreUp(dbh, reach)
    THEN InternalServerError("list_articles")
    ELSE Response("list_articles", 200,
                  [docs |-> SerializeAll(get_documents(st, "article",
                                                       ArticleFilter(tag)))])

\* a POST handler's outcome: the store after it and the response
Outcome(st, r) == [store |-> st, resp |-> r]

Unprocessable(op) == Response(op, 422, [detail |-> "validation error"])

\* create_product writing to the article collection
create_product_in_other_collection(st, dbh, reach, body) ==
    IF ~HerbalProduct(body).ok THEN Outcome(st, Unprocessable("create_product"))
    ELSE IF ~StoreUp(dbh, reach) THEN Outcome(st, InternalServerError("create_product"))
    ELSE LET c == create_document(st, "article", HerbalProduct(body).model)
         IN  Outcome(c.store, Response("create_product", 201, [id |-> c.id]))

\* POST /api/products
create_product(st, dbh, reach, body) ==
    IF ~HerbalProduct(body).ok THEN Outcome(st, Unprocessable("create_product"))
    ELSE IF ~StoreUp(dbh, reach) THEN Outcome(st, InternalServerError("create_product"))
    ELSE LET c == create_document(st, "herbalproduct", HerbalProduct(body).model)
         IN  Outcome(c.store, Response("create_product", 201, [id |-> c.id]))

\* POST /api/articles
create_article(st, dbh, reach, body) ==
    IF ~Article(body).ok THEN Outcome(st, Unprocessable("create_article"))
    ELSE IF ~StoreUp(dbh, reach) THEN Outcome(st, InternalServerError("create_article"))
    ELSE LET c == create_document(st, "article", Article(body).model)
         IN  Outcome(c.store, Response("create_article", 201, [id |-> c.id]))

\* sum(i.price * i.quantity for i in order.items), from the int 0
RECURSIVE SumItems(_)
SumItems(items) ==
    IF items = <<>> THEN FZero
    ELSE LET i == items[Len(items)].v
         IN  FAdd(SumItems(SubSeq(items, 1, Len(items) - 1)),
                  FMulInt(i.price.v, i.quantity.v))

\* 1e-6
Tolerance == [nan |-> FALSE, w |-> 0, u |-> 1]

\* abs(calc_total - order.total) > 1e-6
TotalMismatch(order) ==
    FGt(FAbs(FSub(SumItems(order.items.v), order.total.v)), Tolerance)

\* POST /api/orders
create_order(st, dbh, reach, body) ==
    IF ~Order(body).ok THEN Outcome(st, Unprocessable("create_order"))
    ELSE IF TotalMismatch(Order(body).model)
    THEN Outcome(st, Response("create_order", 400,
                              [detail |-> "Total does not match sum of items"]))
    ELSE IF ~StoreUp(dbh, reach) THEN Outcome(st, InternalServerError("create_order"))
    ELSE LET c == create_document(st, "order", Order(body).model)
         IN  Outcome(c.store, Response("create_order", 201, [id |-> c.id]))


----------------------------------------------------------------------------
(* Seed data on first run *)

SampleProducts ==
    << [name |-> PyStr("Teh Jahe Hangat"),
        description |-> PyStr("Campuran jahe dan rempah untuk menghangatkan tubuh dan melancarkan pencernaan."),
        price |-> PyInt(35000),
        category |-> PyStr("Teh"),
        in_stock |-> PyBool(TRUE),
        image |-> PyStr("https://images.unsplash.com/photo-1512314889357-e157c22f938d"),
        ingredients |-> PyList(<<PyStr("Jahe"), PyStr("Kayu Manis"), PyStr("Cengkeh")>>),
        usage |-> PyStr("Seduh 1 sachet dengan 200ml air panas, minum 2x sehari.")],
       [name |-> PyStr("Minyak Kayu Putih Alami"),
        description |-> PyStr("Minyak esensial untuk meredakan pegal, masuk angin, dan memberikan rasa hangat."),
        price |-> PyInt(42000),
        category |-> PyStr("Minyak"),
        in_stock |-> PyBool(TRUE),
        image |-> PyStr("https://images.unsplash.com/photo-1615485737651-6df9d6f5e3c1"),
        ingredients |-> PyList(<<PyStr("Kayu Putih")>>),
        usage |-> PyStr("Oleskan secukupnya pada area yang diperlukan.")],
       [name |-> PyStr("Kapsul Kunyit Asam"),
        description |-> PyStr("Suplemen herbal untuk membantu menjaga kesehatan pencernaan dan stamina."),
        price |-> PyInt(59000),
        category |-> PyStr("Suplemen"),
        in_stock |-> PyBool(TRUE),
        image |-> PyStr("https://images.unsplash.com/photo-1615485290353-2e9d6f8897f0"),
        ingredients |-> PyList(<<PyStr("Kunyit"), PyStr("Asam Jawa")>>),
        usage |-> PyStr("2 kapsul setelah makan pagi dan malam.")] >>

SampleArticles ==
    << [title |-> PyStr("Manfaat Jahe untuk Kesehatan"),
        summary |-> PyStr("Jahe dikenal sebagai rempah serba guna. Berikut manfaat ilmiahnya."),
        content |-> PyStr("Jahe mengandung gingerol yang bersifat anti-inflamasi dan antioksidan..."),
        cover_image |-> PyStr("https://images.unsplash.com/photo-1604908176997-51f2d7f6f8e2"),
        tags |-> PyList(<<PyStr("jahe"), PyStr("pencernaan"), PyStr("anti-inflamasi")>>)],
       [title |-> PyStr("Kunyit: Si Kuning yang Menyehatkan"),
        summary |-> PyStr("Kunyit memiliki kurkumin yang bermanfaat untuk tubuh."),
        content |-> PyStr("Kurkumin pada kunyit telah diteliti membantu mengurangi peradangan..."),
        cover_image |-> PyStr("https://images.unsplash.com/photo-1615485737651-6df9d6f5e3c1"),
        tags |-> PyList(<<PyStr("kunyit"), PyStr("antioksidan")>>)] >>

\* the store operations one seeding run can make: two counts and the inserts
SeedOps == 2 + Len(SampleProducts) + Len(SampleArticles)

\* `for s in samples: create_document(coll, s)`: n numbers the store
\* operations of the run, and operation number failAt raises
RECURSIVE InsertSamples(_, _, _, _, _)
InsertSamples(st, coll, samples, n, failAt) ==
    IF samples = <<>> THEN [store |-> st, raised |-> FALSE, n |-> n]
    ELSE IF n = failAt THEN [store |-> st, raised |-> TRUE, n |-> n]
    ELSE InsertSamples(create_document(st, coll, Head(samples)).store, coll,
                       Tail(samples), n + 1, failAt)

\* the samples inserted without the emptiness check
SeedCollection_without_check(st, coll, samples, n, failAt) ==
    IF n = failAt THEN [store |-> st, raised |-> TRUE, n |-> n]
    ELSE InsertSamples(st, coll, samples, n + 1, failAt)

\* `if db[coll].count_documents({}) == 0: <insert the samples>`
SeedCollection(st, coll, samples, n, failAt) ==
    IF n = failAt THEN [store |-> st, raised |-> TRUE, n |-> n]
    ELSE IF Len(st[coll]) = 0
    THEN InsertSamples(st, coll, samples, n + 1, failAt)
    ELSE [store |-> st, raised |-> FALSE, n |-> n + 1]

\* the article check nested in the product check: the articles are seeded
\* only in a run that found the products empty
SeedBody_nested(st, failAt) ==
    LET p == SeedCollection(st, "herbalproduct", SampleProducts, 1, failAt)
    IN  IF p.raised \/ st["herbalproduct"] # <<>> THEN p
        ELSE SeedCollection(p.store, "article", SampleArticles, p.n, failAt)

\* the body of the try statement of seed_data
SeedBody(st, failAt) ==
    LET p == SeedCollection(st, "herbalproduct", SampleProducts, 1, failAt)
    IN  IF p.raised THEN p
        ELSE SeedCollection(p.store, "article", SampleArticles, p.n, failAt)

\* seed_data without the except clause
seed_data_without_except(st, dbh, failAt) ==
    IF dbh = "None" THEN [store |-> st, raised |-> FALSE, absorbed |-> FALSE]
    ELSE [store |-> SeedBody(st, failAt).store, raised |-> SeedBody(st, failAt).raised,
          absorbed |-> FALSE]

\* seed_data(): [store, raised, absorbed]: raised is whether an exception
\* leaves the function, absorbed whether `except Exception: pass` caught one
seed_data(st, dbh, failAt) ==
    IF dbh = "None" THEN [store |-> st, raised |-> FALSE, absorbed |-> FALSE]
    ELSE [store |-> SeedBody(st, failAt).store, raised |-> FALSE,
          absorbed |-> SeedBody(st, failAt).raised]

----------------------------------------------------------------------------
(* The requests of the model *)

\* bodies of POST /api/products: a product, a free sample without the
\* optional fields, a negative price
ProductInputs ==
    { [name |-> PyStr("Wedang Uwuh"), description |-> PyNone, price |-> PyInt(0),
       category |-> PyStr("teh"), in_stock |-> PyBool(TRUE), image |-> PyNone,
       ingredients |-> PyNone, usage |-> PyNone],
      [name |-> PyStr("Wedang Uwuh"), description |-> PyNone, price |-> PyFloat(-1, 999999),
       category |-> PyStr("teh"), in_stock |-> PyBool(TRUE), image |-> PyNone,
       ingredients |-> PyNone, usage |-> PyNone] }

\* bodies of POST /api/articles
ArticleInputs ==
    { [title |-> PyStr("Kencur"), summary |-> PyNone, content |-> PyStr("Kencur ..."),
       cover_image |-> PyNone, tags |-> PyNone] }

\* query parameters: absent, empty, a word in another case, a pattern, a
\* word of no product
QInputs == {PyNone, PyStr(""), PyStr("JAHE"), PyStr("j.he"), PyStr("kencur")}
CategoryInputs == {PyNone, PyStr(""), PyStr("Teh"), PyStr("teh")}
TagInputs == {PyNone, PyStr("kunyit")}

\* the queries of the full system's runs
BasicQInputs == {PyNone, PyStr("j.he")}
BasicCategoryInputs == {PyNone, PyStr("Teh")}

Customer(email) ==
    PyDict([name |-> PyStr("Budi"), email |-> email, phone |-> PyNone,
            address |-> PyStr("Jl. Melati 1")])

Item(price, quantity) ==
    PyDict([product_id |-> PyStr("p1"), name |-> PyStr("Teh Jahe Hangat"),
            price |-> price, quantity |-> PyInt(quantity)])

OrderBody(items, customer, total) ==
    [items |-> PyList(items), customer |-> customer, note |-> PyNone, total |-> total]

\* items of an order: 35000 x 2, 35000 x 0, -35000 x 2, NaN x 1
ItemInputs ==
    { Item(PyInt(35000), 2), Item(PyInt(35000), 0),
      Item(PyInt(-35000), 2), Item(PyNaN, 1) }

TotalInputs ==
    { PyInt(0), PyInt(70000), PyFloat(70000, 1), PyFloat(70000, 2), PyInt(70001),
      PyInt(-1) }

CustomerInputs == { Customer(PyStr("budi@example.com")), Customer(PyStr("budi.example.com")) }

ItemLists == UNION { [1..n -> ItemInputs] : n \in 0..MaxItems }

\* bodies of POST /api/orders
OrderInputs ==
    { OrderBody(items, c, total) :
        items \in ItemLists, c \in CustomerInputs, total \in TotalInputs }

\* the orders of the full system's runs: 35000 x 2 with total 70000, with
\* total 70001, and with a quantity of 0
BasicOrderInputs ==
    { OrderBody(<<Item(PyInt(35000), 2)>>, Customer(PyNone), PyInt(70000)),
      OrderBody(<<Item(PyInt(35000), 2)>>, Customer(PyNone), PyInt(70001)),
      OrderBody(<<Item(PyInt(35000), 0)>>, Customer(PyNone), PyInt(0)) }

----------------------------------------------------------------------------
(* The state machine *)

Init ==
    /\ phase = "stopped"
    /\ db = "None"
    /\ store = EmptyStore
    /\ resp = Response("none", 0, [detail |-> ""])

\* the process starts: the configuration gives a store handle or none,
\* seed_data runs, and the process serves unless seed_data raised
Startup(dbh, failAt) ==
    /\ phase = "stopped"
    /\ LET r == seed_data(store, dbh, failAt)
       IN  /\ store' = r.store
           /\ phase' = IF r.raised THEN "crashed" ELSE "serving"
           /\ resp' = Response("seed_data", 0, [absorbed |-> r.absorbed])
    /\ db' = dbh

\* the process stops; the store keeps its documents
Stop ==
    /\ phase = "serving"
    /\ phase' = "stopped"
    /\ resp' = Response("none", 0, [detail |-> ""])
    /\ UNCHANGED <<db, store>>

ReadRoot ==
    /\ phase = "serving"
    /\ resp' = read_root
    /\ UNCHANGED <<phase, db, store>>

GetSchema ==
    /\ phase = "serving"
    /\ resp' = get_schema
    /\ UNCHANGED <<phase, db, store>>

TestDatabase(listOk) ==
    /\ phase = "serving"
    /\ resp' = test_database(store, db, listOk)
    /\ UNCHANGED <<phase, db, store>>

ListProducts(reach, q, category) ==
    /\ phase = "serving"
    /\ resp' = list_products(store, db, reach, q, category)
    /\ UNCHANGED <<phase, db, store>>

ListArticles(reach, tag) ==
    /\ phase = "serving"
    /\ resp' = list_articles(store, db, reach, tag)
    /\ UNCHANGED <<phase, db, store>>

CreateProduct(reach, body) ==
    /\ phase = "serving"
    /\ Len(store["herbalproduct"]) < MaxProducts
    /\ LET o == create_product(store, db, reach, body)
       IN  store' = o.store /\ resp' = o.resp
    /\ UNCHANGED <<phase, db>>

CreateArticle(reach, body) ==
    /\ phase = "serving"
    /\ Len(store["article"]) < MaxArticles
    /\ LET o == create_article(store, db, reach, body)
       IN  store' = o.store /\ resp' = o.resp
    /\ UNCHANGED <<phase, db>>

CreateOrder(reach, body) ==
    /\ phase = "serving"
    /\ Len(store["order"]) < MaxOrders
    /\ LET o == create_order(store, db, reach, body)
       IN  store' = o.store /\ resp' = o.resp
    /\ UNCHANGED <<phase, db>>

StartupAny == \E dbh \in {"None", "connected"}, failAt \in 0..SeedOps : Startup(dbh, failAt)

\* the full system
Next ==
    \/ StartupAny
    \/ Stop
    \/ ReadRoot
    \/ GetSchema
    \/ \E listOk \in BOOLEAN : TestDatabase(listOk)
    \/ \E reach \in BOOLEAN, q \in BasicQInputs, category \in BasicCategoryInputs :
          ListProducts(reach, q, category)
    \/ \E reach \in BOOLEAN, tag \in TagInputs : ListArticles(reach, tag)
    \/ \E reach \in BOOLEAN, body \in ProductInputs : CreateProduct(reach, body)
    \/ \E reach \in BOOLEAN, body \in ArticleInputs : CreateArticle(reach, body)
    \/ \E reach \in BOOLEAN, body \in BasicOrderInputs : CreateOrder(reach, body)

Spec == Init /\ [][Next]_vars

\* order submission in depth: every order of OrderInputs, and the products
NextOrders ==
    \/ StartupAny
    \/ Stop
    \/ \E reach \in BOOLEAN, body \in ProductInputs : CreateProduct(reach, body)
    \/ \E reach \in BOOLEAN, body \in OrderInputs : CreateOrder(reach, body)

SpecOrders == Init /\ [][NextOrders]_vars

\* product search in depth: every query of QInputs and CategoryInputs
NextSearch ==
    \/ StartupAny
    \/ Stop
    \/ \E reach \in BOOLEAN, body \in ProductInputs : CreateProduct(reach, body)
    \/ \E reach \in BOOLEAN, q \in QInputs, category \in CategoryInputs :
          ListProducts(reach, q, category)

SpecSearch == Init /\ [][NextSearch]_vars

\* serialization in depth: the process serves a store that already holds
\* documents, some of them with timestamp fields, and lists them
Timestamps ==
    { PyDatetime(2024, 1, 5, 9, 3, 7, 0), PyDatetime(2025, 12, 31, 23, 59, 58, 123000) }

Stamped(data, created, updated) ==
    [k \in DOMAIN data \cup {"created_at", "updated_at"} |->
        IF k = "created_at" THEN created
        ELSE IF k = "updated_at" THEN updated
        ELSE data[k]]

StoredProductInputs ==
    { Stamped(SampleProducts[1], c, u) : c \in Timestamps, u \in Timestamps }
    \cup { SampleProducts[2] }

StoredArticleInputs ==
    { Stamped(SampleArticles[1], c, c) : c \in Timestamps } \cup { SampleArticles[2] }

\* the collection that holds the given data, in order
Stored(coll, datas) ==
    [i \in 1..Len(datas) |-> WithId(datas[i], ObjectId(coll, i))]

InitSerialize ==
    /\ phase = "serving"
    /\ db = "connected"
    /\ \E ps \in UNION { [1..n -> StoredProductInputs] : n \in 0..MaxStoredDocs },
          as \in UNION { [1..n -> StoredArticleInputs] : n \in 0..MaxStoredDocs } :
          store = [EmptyStore EXCEPT !["herbalproduct"] = Stored("herbalproduct", ps),
                                     !["article"] = Stored("article", as)]
    /\ resp = Response("none", 0, [detail |-> ""])

NextSerialize ==
    \/ \E reach \in BOOLEAN, q \in BasicQInputs, category \in BasicCategoryInputs :
          ListProducts(reach, q, category)
    \/ \E reach \in BOOLEAN, tag \in TagInputs : ListArticles(reach, tag)

SpecSerialize == InitSerialize /\ [][NextSerialize]_vars

----------------------------------------------------------------------------
(* The claims *)

Products == store["herbalproduct"]
Articles == store["article"]
Orders == store["order"]

\* |sum over items of item.price * item.quantity - total| <= 1e-6, as a
\* statement about numbers: it holds of no sum that is not a number
SumWithinTolerance(body) ==
    LET m == Order(body).model
        diff == FAbs(FSub(SumItems(m.items.v), m.total.v))
    IN  ~diff.nan /\ ~FLt(Tolerance, diff)

\* C1: a schema-valid order submitted with the store available is created
\* (201, exactly one new order document, its id returned) if and only if
\* its total is within 1e-6 of the sum of price * quantity over its items,
\* and is otherwise rejected with 400, the order collection unchanged.
C1_CreatedIffTotalMatches ==
    [][\A reach \in BOOLEAN, body \in OrderInputs :
          (CreateOrder(reach, body) /\ Order(body).ok /\ StoreUp(db, reach)) =>
             IF SumWithinTolerance(body)
             THEN /\ resp'.status = 201
                  /\ Len(store'["order"]) = Len(Orders) + 1
                  /\ resp'.body.id = StrObjectId(store'["order"][Len(Orders) + 1]["_id"])
             ELSE /\ resp'.status = 400
                  /\ store'["order"] = Orders]_vars

\* C2: every stored order has a non-empty items list.
C2_StoredOrdersHaveItems ==
    \A i \in 1..Len(Orders) : Orders[i].items.v # <<>>

\* C3: a product with price < 0, or an order with an item of price < 0 or
\* of quantity < 1 or with a total < 0, is rejected with 422 and persists
\* nothing, so no stored product and no stored order item has a price < 0
\* and no stored order item a quantity < 1.
C3_LowerBoundsEnforced ==
    /\ \A i \in 1..Len(Products) : ~FLt(Num(Products[i].price), FZero)
    /\ \A i \in 1..Len(Orders) :
          /\ ~FLt(Num(Orders[i].total), FZero)
          /\ \A j \in 1..Len(Orders[i].items.v) :
                /\ ~FLt(Num(Orders[i].items.v[j].v.price), FZero)
                /\ Orders[i].items.v[j].v.quantity.v >= 1

IsPrefix(a, b) == Len(a) <= Len(b) /\ SubSeq(b, 1, Len(a)) = a

\* the ids an unfiltered GET /api/products returns from a store
ListedIds(st) ==
    LET docs == list_products(st, "connected", TRUE, PyNone, PyNone).body.docs
    IN  { docs[i].id.v : i \in 1..Len(docs) }

\* C4: a valid product posted with the store available is created with a
\* new id, every id an unfiltered GET /api/products returns is returned by
\* it in the next state too, and no step changes or removes a stored
\* document of any collection.
C4_CreatedProductStaysListed ==
    [][/\ \A id \in ListedIds(store) : id \in ListedIds(store')
       /\ \A c \in Collections : IsPrefix(store[c], store'[c])
       /\ \A reach \in BOOLEAN, body \in ProductInputs :
             (CreateProduct(reach, body) /\ HerbalProduct(body).ok /\ StoreUp(db, reach)) =>
                /\ resp'.status = 201
                /\ resp'.body.id \notin ListedIds(store)
                /\ resp'.body.id \in ListedIds(store')]_vars

\* a posted product is listed after further products, an article and an
\* order were stored
C4_Witness ==
    /\ resp.op = "list_products" /\ resp.status = 200
    /\ Len(Orders) >= 1 /\ Len(Articles) >= 1
    /\ \E i \in 1..Len(Products) :
          /\ i < Len(Products)
          /\ Products[i].name = PyStr("Wedang Uwuh")
          /\ \E j \in 1..Len(resp.body.docs) :
                resp.body.docs[j].id = PyStr(StrObjectId(Products[i]["_id"]))

\* a query parameter is present (an empty one counts as absent)
Present(x) == x.t = "str" /\ x.v # ""

\* q occurs in text, letter case ignored
OccursIgnoringCase(q, text) ==
    \E off \in 0..(Len(text) - Len(q)) :
        \A j \in 1..Len(q) : Lower(CharAt(q, j)) = Lower(CharAt(text, off + j))

\* the product satisfies the requested filters, as the claim states them
SatisfiesFilters(doc, q, category) ==
    /\ Present(q) =>
          \/ doc.name.t = "str" /\ OccursIgnoringCase(q.v, doc.name.v)
          \/ doc.description.t = "str" /\ OccursIgnoringCase(q.v, doc.description.v)
          \/ /\ doc.ingredients.t = "list"
             /\ \E i \in 1..Len(doc.ingredients.v) :
                   OccursIgnoringCase(q.v, doc.ingredients.v[i].v)
    /\ Present(category) => doc.category.t = "str" /\ doc.category.v = category.v

RECURSIVE Satisfying(_, _, _)
Satisfying(docs, q, category) ==
    IF docs = <<>> THEN <<>>
    ELSE IF SatisfiesFilters(Head(docs), q, category)
         THEN <<Head(docs)>> \o Satisfying(Tail(docs), q, category)
         ELSE Satisfying(Tail(docs), q, category)

\* C5: GET /api/products returns exactly the stored products in which q (if
\* present) occurs, case-insensitively, in name or description or an
\* ingredient, and whose category (if present) equals the one requested.
C5_ListReturnsTheMatches ==
    [][\A reach \in BOOLEAN, q \in QInputs, category \in CategoryInputs :
          (ListProducts(reach, q, category) /\ resp'.status = 200) =>
             resp'.body.docs = SerializeAll(Satisfying(Products, q, category))]_vars

\* a stored document without the identifier the store gave it
WithoutId(doc) == [k \in DOMAIN doc \ {"_id"} |-> doc[k]]

\* how many documents of the collection hold the sample
Copies(docs, sample) ==
    Cardinality({ i \in 1..Len(docs) : WithoutId(docs[i]) = sample })

\* every sample is held, in the store st, by exactly the numbers of
\* documents in the set
SampleCopiesIn(st, numbers) ==
    /\ \A i \in 1..Len(SampleProducts) :
          Copies(st["herbalproduct"], SampleProducts[i]) \in numbers
    /\ \A i \in 1..Len(SampleArticles) :
          Copies(st["article"], SampleArticles[i]) \in numbers

\* the stores a seeding run can leave of the empty store, and those of
\* them in which it inserted a sample
AfterFirstRun == { seed_data(EmptyStore, "connected", f).store : f \in 0..SeedOps }
SeededOnce == AfterFirstRun \ {EmptyStore}

\* a seeding run with a store connection
SeedingRun(failAt) == Startup("connected", failAt)

ProductCheckDone(failAt) == failAt # 1
ArticleCheckDone(st, failAt) ==
    LET p == SeedCollection(st, "herbalproduct", SampleProducts, 1, failAt)
    IN  ~p.raised /\ p.n # failAt

\* the collection after the step is the one before it, seeded if it was
\* empty
SeededByEmptiness(coll, samples) ==
    store'[coll] = IF store[coll] = <<>> THEN Stored(coll, samples) ELSE store[coll]

C8_SeedingNeverPreventsStartup ==
    [][\A dbh \in {"None", "connected"}, failAt \in 0..SeedOps :
          Startup(dbh, failAt) =>
             /\ phase' = "serving"
             /\ dbh = "None" => store' = store]_vars

\* the process serves after a seeding run that ended on a failed store
\* operation, with part of the samples inserted
C8_Witness ==
    /\ phase = "serving" /\ resp.op = "seed_data" /\ resp.body.absorbed
    /\ Len(Products) = 1

\* a request to a data-affecting endpoint, with a body the schema accepts,
\* while the store is not configured or does not answer; an order is one
\* whose total matches (matching) or does not
DataRequestStoreDown(matching) ==
    \E reach \in BOOLEAN :
        /\ ~StoreUp(db, reach)
        /\ \/ \E q \in BasicQInputs, category \in BasicCategoryInputs :
                 ListProducts(reach, q, category)
           \/ \E tag \in TagInputs : ListArticles(reach, tag)
           \/ \E body \in ProductInputs :
                 HerbalProduct(body).ok /\ CreateProduct(reach, body)
           \/ \E body \in ArticleInputs :
                 Article(body).ok /\ CreateArticle(reach, body)
           \/ \E body \in BasicOrderInputs :
                 /\ Order(body).ok
                 /\ SumWithinTolerance(body) = matching
                 /\ CreateOrder(reach, body)

\* GET / and GET /test answer, GET /test reporting the degraded status
ProbesAnswerStoreDown ==
    /\ ReadRoot => resp'.status = 200
    /\ \A listOk \in BOOLEAN :
          (TestDatabase(listOk) /\ ~StoreUp(db, listOk)) =>
             /\ resp'.status = 200
             /\ resp'.body.database # "Connected & Working"
             /\ resp'.body.connection_status = "Not Connected"

\* C9 as stated: with the store down, every data-affecting endpoint answers
\* 500 (to a body its schema accepts) and the store does not change, and
\* the probes answer.
C9_StoreDownGives500 ==
    [][/\ (DataRequestStoreDown(TRUE) \/ DataRequestStoreDown(FALSE)) =>
             (resp'.status = 500 /\ store' = store)
       /\ ProbesAnswerStoreDown]_vars

\* C9 as amended: with the store down, every data-affecting endpoint
\* answers 500 (to a body its schema accepts), except that POST /api/orders
\* answers 400 to an order whose total does not match; the store does not
\* change, and the probes answer.
C9_StoreDownGives500UnlessMismatch ==
    [][/\ DataRequestStoreDown(TRUE) => (resp'.status = 500 /\ store' = store)
       /\ DataRequestStoreDown(FALSE) =>
             \/ resp'.status = 500 /\ resp'.op # "create_order" /\ store' = store
             \/ resp'.status = 400 /\ resp'.op = "create_order" /\ store' = store
       /\ ProbesAnswerStoreDown]_vars

\* a valid order was answered 500 by a process without a store handle
C9_Witness ==
    /\ db = "None" /\ resp.op = "create_order" /\ resp.status = 500


IsDigit(c) == \E n \in 0..9 : ToString(n) = c
DigitValue(c) == CHOOSE n \in 0..9 : ToString(n) = c

\* the number a string of digits writes
RECURSIVE ParseNat(_)
ParseNat(s) ==
    IF s = "" THEN 0
    ELSE ParseNat(SubSeq(s, 1, Len(s) - 1)) * 10 + DigitValue(CharAt(s, Len(s)))

AllDigits(s) == \A i \in 1..Len(s) : IsDigit(CharAt(s, i))

\* s is the ISO-8601 form YYYY-MM-DDTHH:MM:SS[.ffffff] of the timestamp d
IsIso8601Of(s, d) ==
    /\ Len(s) \in {19, 26}
    /\ CharAt(s, 5) = "-" /\ CharAt(s, 8) = "-" /\ CharAt(s, 11) = "T"
    /\ CharAt(s, 14) = ":" /\ CharAt(s, 17) = ":"
    /\ AllDigits(SubSeq(s, 1, 4)) /\ ParseNat(SubSeq(s, 1, 4)) = d.year
    /\ AllDigits(SubSeq(s, 6, 7)) /\ ParseNat(SubSeq(s, 6, 7)) = d.month
    /\ AllDigits(SubSeq(s, 9, 10)) /\ ParseNat(SubSeq(s, 9, 10)) = d.day
    /\ AllDigits(SubSeq(s, 12, 13)) /\ ParseNat(SubSeq(s, 12, 13)) = d.hour
    /\ AllDigits(SubSeq(s, 15, 16)) /\ ParseNat(SubSeq(s, 15, 16)) = d.minute
    /\ AllDigits(SubSeq(s, 18, 19)) /\ ParseNat(SubSeq(s, 18, 19)) = d.second
    /\ IF Len(s) = 19 THEN d.microsecond = 0
       ELSE /\ CharAt(s, 20) = "."
            /\ AllDigits(SubSeq(s, 21, 26))
            /\ ParseNat(SubSeq(s, 21, 26)) = d.microsecond

\* out is the stored document as the claim has it returned
ReturnedFormOf(out, doc) ==
    /\ DOMAIN out = (DOMAIN doc \ {"_id"}) \cup {"id"}
    /\ out.id.t = "str" /\ out.id.v = doc["_id"].v.c \o "-" \o ToString(doc["_id"].v.n)
    /\ \A k \in DOMAIN doc \ {"_id"} :
          IF doc[k].t = "datetime"
          THEN out[k].t = "str" /\ IsIso8601Of(out[k].v, doc[k].v)
          ELSE out[k] = doc[k]

\* the documents a list handler returned are the returned forms of the
\* stored documents that its filter selects, in order
ReturnsFormsOf(docs) ==
    /\ Len(resp'.body.docs) = Len(docs)
    /\ \A i \in 1..Len(docs) : ReturnedFormOf(resp'.body.docs[i], docs[i])

\* C10: every document GET /api/products and GET /api/articles return has
\* the string form of the stored identifier as id and no _id, a timestamp
\* field as its ISO-8601 string and every other field unchanged, and the
\* stored documents are not modified.
C10_ReturnedDocumentsAreSerialized ==
    [][/\ \A reach \in BOOLEAN, q \in BasicQInputs, category \in BasicCategoryInputs :
             (ListProducts(reach, q, category) /\ resp'.status = 200) =>
                /\ ReturnsFormsOf(get_documents(store, "herbalproduct",
                                                ProductFilter(q, category)))
                /\ store' = store
       /\ \A reach \in BOOLEAN, tag \in TagInputs :
             (ListArticles(reach, tag) /\ resp'.status = 200) =>
                /\ ReturnsFormsOf(get_documents(store, "article", ArticleFilter(tag)))
                /\ store' = store]_vars

\* a product was returned with a timestamp that has microseconds and one
\* that has none
C10_Witness ==
    /\ resp.op = "list_products" /\ resp.status = 200
    /\ \E i \in 1..Len(resp.body.docs) :
          /\ "created_at" \in DOMAIN resp.body.docs[i]
          /\ resp.body.docs[i].created_at = PyStr("2025-12-31T23:59:58.123000")
          /\ resp.body.docs[i].updated_at = PyStr("2024-01-05T09:03:07")
          /\ resp.body.docs[i].id = PyStr("herbalproduct-2")

=============================================================================
